---- MODULE Spec2Model ----
(***************************************************************************)
(* Neural Clipboard (src/neural_clipboard.py): a clipboard watcher thread  *)
(* (producer), an AI processor thread (consumer), the tray callbacks and   *)
(* main, communicating through two threading.Event flags and one           *)
(* queue.Queue.  Each thread is a program counter walking the statements   *)
(* of its loop.  A step holds at most one access to a shared object (the   *)
(* clipboard, an Event, the queue) together with the thread-local          *)
(* statements around it, so every interleaving of the shared accesses is   *)
(* explored.                                                               *)
(***************************************************************************)
EXTENDS Integers, Sequences, FiniteSets, TLC

\* ------------------------------------------------------------------ bounds
\* Number of times the user changes the clipboard content.
MaxCopies == 2

\* Clipboard contents: the empty clipboard and two distinct texts.
Texts == {"", "a", "b"}

\* ------------------------------------------------------- program constants
MODEL == "gemini-2.5-flash"
MAX_RETRIES == 3
BASE_DELAY == 5

\* Error strings of the remote API, as the sequence of the markers they hold;
\* `marker in err` of the source is membership of the marker in the sequence.
ErrNotFound == <<"404", "NOT_FOUND">>
ErrRate == <<"429", "RESOURCE_EXHAUSTED">>
ErrZeroQuota == <<"429", "RESOURCE_EXHAUSTED", "limit: 0">>
ErrOther == <<"500", "INTERNAL">>
ErrStrings == {ErrNotFound, ErrRate, ErrZeroQuota, ErrOther}

Contains(err, marker) == \E i \in 1..Len(err) : err[i] = marker

VARIABLES
    \* environment
    clipboard,        \* the operating system clipboard
    copies,           \* how many times the user changed it (bounded)
    clip_priv,        \* history: the clipboard content was placed while privacy was set
    \* shared objects
    shutdown_event,   \* threading.Event
    privacy_event,    \* threading.Event
    ai_queue,         \* queue.Queue: the items, each [text, seq, priv]: the text put,
                      \* and as history its rank among the puts and obs_priv of its poll
    unfinished_tasks, \* queue.Queue: put() minus task_done()
    \* main / tray
    tray,             \* "init" | "running" | "stopped"
    mpc,              \* main: "start" | "run" | "done"
    \* watcher_loop
    wpc,              \* "idle" | "check" | "read" | "decide" | "put" | "stopped"
    current_text,
    last_text,
    prev_text,        \* history: at "decide", the value read by the preceding poll
    prev_nonempty,    \* history: the last non-empty value read before this poll
    read_priv,        \* history: at "decide"/"put", the value read was placed under privacy
    obs_priv,         \* history: privacy_event as line 114 last read it
    priv_seen,        \* history: a poll suppressed the present clipboard content
    clip_queued,      \* history: a put enqueued the present clipboard content
    nput,             \* history: the number of ai_queue.put calls
    \* ai_processor_loop
    credential,       \* GEMINI_API_KEY is set and genai.Client() succeeds
    ppc,              \* "idle" | "start" | "check" | "get" | "call" | "backoff" | "after" | "done" | "stopped" | "disabled"
    text,
    attempt,
    success,
    log,              \* history: calls, waits and notifications for the item in hand
    got,              \* history: the item in hand, as it came out of the queue
    nget              \* history: the number of items got from the queue

envvars == <<clipboard, copies, clip_priv>>
sharedvars == <<shutdown_event, privacy_event, ai_queue, unfinished_tasks>>
mainvars == <<tray, mpc>>
wlocals == <<current_text, last_text, prev_text, prev_nonempty, read_priv,
             obs_priv, priv_seen, clip_queued, nput>>
wvars == <<wpc, wlocals>>
plocals == <<credential, text, attempt, success, log, got, nget>>
pvars == <<ppc, plocals>>
vars == <<envvars, sharedvars, mainvars, wvars, pvars>>

NoItem == [text |-> "", seq |-> 0, priv |-> FALSE]

Init ==
    /\ clipboard = ""
    /\ copies = 0
    /\ clip_priv = FALSE
    /\ shutdown_event = FALSE
    /\ privacy_event = FALSE
    /\ ai_queue = <<>>
    /\ unfinished_tasks = 0
    /\ tray = "init"
    /\ mpc = "start"
    /\ wpc = "idle"
    /\ current_text = ""
    /\ last_text = ""
    /\ prev_text = ""
    /\ prev_nonempty = ""
    /\ read_priv = FALSE
    /\ obs_priv = FALSE
    /\ priv_seen = FALSE
    /\ clip_queued = FALSE
    /\ nput = 0
    /\ credential \in BOOLEAN
    /\ ppc = "idle"
    /\ text = ""
    /\ attempt = 0
    /\ success = FALSE
    /\ log = <<>>
    /\ got = NoItem
    /\ nget = 0

\* ------------------------------------------------------------- environment
\* The user copies a different text (or clears the clipboard).
Copy ==
    /\ copies < MaxCopies
    /\ \E t \in Texts \ {clipboard} : clipboard' = t
    /\ copies' = copies + 1
    /\ clip_priv' = privacy_event
    /\ priv_seen' = FALSE
    /\ clip_queued' = FALSE
    /\ read_priv' = FALSE
    /\ UNCHANGED <<sharedvars, mainvars, pvars>>
    /\ UNCHANGED <<wpc, current_text, last_text, prev_text, prev_nonempty,
                   obs_priv, nput>>

\* ------------------------------------------------------------ watcher_loop
\* A variant of line 98 that never looks at the flag: while True.
W_Check_Forever ==
    /\ wpc = "check"
    /\ wpc' = "read"
    /\ UNCHANGED <<envvars, sharedvars, mainvars, pvars, wlocals>>

\* line 98: while not shutdown_event.is_set()
W_Check ==
    /\ wpc = "check"
    /\ wpc' = IF shutdown_event THEN "stopped" ELSE "read"
    /\ UNCHANGED <<envvars, sharedvars, mainvars, pvars, wlocals>>

\* A variant of lines 101-108 without the try/except: a PyperclipException
\* ends the thread.
W_Read_Raise ==
    /\ wpc = "read"
    /\ \E failed \in BOOLEAN :
         /\ current_text' = IF failed THEN current_text ELSE clipboard
         /\ read_priv' = (~failed /\ clip_priv)
         /\ wpc' = IF failed THEN "stopped" ELSE "decide"
    /\ prev_text' = current_text
    /\ prev_nonempty' = IF current_text # "" THEN current_text ELSE prev_nonempty
    /\ UNCHANGED <<envvars, sharedvars, mainvars, pvars>>
    /\ UNCHANGED <<last_text, obs_priv, priv_seen, clip_queued, nput>>

\* lines 101-108: pyperclip.paste(), a PyperclipException reads as ""
W_Read ==
    /\ wpc = "read"
    /\ \E failed \in BOOLEAN :
         /\ current_text' = IF failed THEN "" ELSE clipboard
         /\ read_priv' = (~failed /\ clip_priv)
    /\ prev_text' = current_text
    /\ prev_nonempty' = IF current_text # "" THEN current_text ELSE prev_nonempty
    /\ wpc' = "decide"
    /\ UNCHANGED <<envvars, sharedvars, mainvars, pvars>>
    /\ UNCHANGED <<last_text, obs_priv, priv_seen, clip_queued, nput>>

\* A variant of line 111 without the emptiness test.
Changed_NoEmptyTest(cur, last) == cur # last

\* line 111: if current_text and current_text != last_text
Changed(cur, last) == cur # "" /\ cur # last

\* A variant of W_Decide whose privacy branch skips line 126.
W_Decide_KeepLast ==
    /\ wpc = "decide"
    /\ IF Changed(current_text, last_text)
       THEN /\ obs_priv' = privacy_event
            /\ IF privacy_event
               THEN /\ priv_seen' = (priv_seen \/ clipboard = current_text)
                    /\ read_priv' = FALSE
                    /\ wpc' = "check"
                    /\ UNCHANGED last_text
               ELSE /\ wpc' = "put"
                    /\ UNCHANGED <<last_text, priv_seen, read_priv>>
       ELSE /\ wpc' = "check"
            /\ read_priv' = FALSE
            /\ UNCHANGED <<last_text, obs_priv, priv_seen>>
    /\ prev_text' = ""
    /\ UNCHANGED <<envvars, sharedvars, mainvars, pvars>>
    /\ UNCHANGED <<current_text, prev_nonempty, clip_queued, nput>>

\* A variant of W_Decide that logs the privacy skip but enqueues all the same.
W_Decide_IgnorePrivacy ==
    /\ wpc = "decide"
    /\ IF Changed(current_text, last_text)
       THEN /\ obs_priv' = privacy_event
            /\ wpc' = "put"
            /\ UNCHANGED <<last_text, priv_seen, read_priv>>
       ELSE /\ wpc' = "check"
            /\ read_priv' = FALSE
            /\ UNCHANGED <<last_text, obs_priv, priv_seen>>
    /\ prev_text' = ""
    /\ UNCHANGED <<envvars, sharedvars, mainvars, pvars>>
    /\ UNCHANGED <<current_text, prev_nonempty, clip_queued, nput>>

\* lines 111-118: the test of line 111, then privacy_event.is_set().  When
\* nothing changed the poll ends at the wait of line 129; when privacy is set
\* it ends with last_text = current_text (line 126) and the wait.
W_Decide ==
    /\ wpc = "decide"
    /\ IF Changed(current_text, last_text)
       THEN /\ obs_priv' = privacy_event
            /\ IF privacy_event
               THEN /\ last_text' = current_text
                    /\ priv_seen' = (priv_seen \/ clipboard = current_text)
                    /\ read_priv' = FALSE
                    /\ wpc' = "check"
               ELSE /\ wpc' = "put"
                    /\ UNCHANGED <<last_text, priv_seen, read_priv>>
       ELSE /\ wpc' = "check"
            /\ read_priv' = FALSE
            /\ UNCHANGED <<last_text, obs_priv, priv_seen>>
    /\ prev_text' = ""
    /\ UNCHANGED <<envvars, sharedvars, mainvars, pvars>>
    /\ UNCHANGED <<current_text, prev_nonempty, clip_queued, nput>>

\* A variant of lines 122-129 without the assignment of line 126.
W_Put_KeepLast ==
    /\ wpc = "put"
    /\ ai_queue' = Append(ai_queue, [text |-> current_text, seq |-> nput + 1,
                                      priv |-> obs_priv])
    /\ unfinished_tasks' = unfinished_tasks + 1
    /\ nput' = nput + 1
    /\ clip_queued' = (clip_queued \/ current_text = clipboard)
    /\ read_priv' = FALSE
    /\ wpc' = "check"
    /\ UNCHANGED <<envvars, shutdown_event, privacy_event, mainvars, pvars>>
    /\ UNCHANGED <<current_text, last_text, prev_text, prev_nonempty, obs_priv,
                   priv_seen>>

\* lines 122-129: ai_queue.put(current_text), last_text = current_text, wait
W_Put ==
    /\ wpc = "put"
    /\ ai_queue' = Append(ai_queue, [text |-> current_text, seq |-> nput + 1,
                                      priv |-> obs_priv])
    /\ unfinished_tasks' = unfinished_tasks + 1
    /\ nput' = nput + 1
    /\ clip_queued' = (clip_queued \/ current_text = clipboard)
    /\ last_text' = current_text
    /\ read_priv' = FALSE
    /\ wpc' = "check"
    /\ UNCHANGED <<envvars, shutdown_event, privacy_event, mainvars, pvars>>
    /\ UNCHANGED <<current_text, prev_text, prev_nonempty, obs_priv, priv_seen>>

Watcher == W_Check \/ W_Read \/ W_Decide \/ W_Put

\* ------------------------------------------------------- ai_processor_loop
Event(ev, res, delay) == [ev |-> ev, model |-> MODEL, res |-> res, delay |-> delay]

\* A variant of lines 166-183 that goes on without the API key.
P_Start_NoKeyTest ==
    /\ ppc = "start"
    /\ ppc' = "check"
    /\ UNCHANGED <<envvars, sharedvars, mainvars, wvars, plocals>>

\* lines 166-183: the API key and the client; without them the thread returns
P_Start ==
    /\ ppc = "start"
    /\ ppc' = IF credential THEN "check" ELSE "disabled"
    /\ UNCHANGED <<envvars, sharedvars, mainvars, wvars, plocals>>

\* line 186: while not shutdown_event.is_set()
P_Check ==
    /\ ppc = "check"
    /\ ppc' = IF shutdown_event THEN "stopped" ELSE "get"
    /\ UNCHANGED <<envvars, sharedvars, mainvars, wvars, plocals>>

\* A variant of Queue.get that hands out the newest item.
QueueGet_Newest(q) == q[Len(q)]

\* line 190: Queue.get returns the oldest item
QueueGet(q) == Head(q)

\* lines 187-207: ai_queue.get(timeout=1); queue.Empty continues the loop;
\* otherwise success = False and the retry loop starts at attempt 1
P_Get ==
    /\ ppc = "get"
    /\ IF ai_queue = <<>>
       THEN /\ ppc' = "check"
            /\ UNCHANGED <<ai_queue, text, attempt, success, log, got, nget>>
       ELSE /\ text' = QueueGet(ai_queue).text
            /\ got' = QueueGet(ai_queue)
            /\ nget' = nget + 1
            /\ ai_queue' = Tail(ai_queue)
            /\ success' = FALSE
            /\ attempt' = 1
            /\ log' = <<>>
            /\ ppc' = "call"
    /\ UNCHANGED <<envvars, shutdown_event, privacy_event, unfinished_tasks,
                   mainvars, wvars, credential>>

\* lines 148-160: _try_generate returns (text, None) or (None, str(e))
TryGenerate == {[ok |-> TRUE, err |-> <<>>]} \cup {[ok |-> FALSE, err |-> e] : e \in ErrStrings}

\* A variant of line 232 that takes every error for a rate limit.
IsRateLimited_Always(err) == TRUE

\* A variant of line 232 that also retries a 404.
IsRateLimited_Or404(err) ==
    Contains(err, "429") \/ Contains(err, "RESOURCE_EXHAUSTED") \/ Contains(err, "404")

\* A variant of line 232 that gives up on a zero quota.
IsRateLimited_NotZeroQuota(err) ==
    (Contains(err, "429") \/ Contains(err, "RESOURCE_EXHAUSTED")) /\ ~Contains(err, "limit: 0")

\* line 232: "429" in err or "RESOURCE_EXHAUSTED" in err
IsRateLimited(err) == Contains(err, "429") \/ Contains(err, "RESOURCE_EXHAUSTED")

\* A variant of line 233 with a linear backoff.
BackoffDelay_Linear(a) == BASE_DELAY * a

\* line 233: delay = BASE_DELAY * (2 ** (attempt - 1))
BackoffDelay(a) == BASE_DELAY * (2 ^ (a - 1))

\* plyer notification.notify inside try/except Exception: pass
Notify(kind, shown) ==
    Event("notify", <<kind, IF shown THEN "shown" ELSE "SinkError">>, 0)

Call(r) == Event("call", IF r.ok THEN <<"ok">> ELSE r.err, 0)

\* A variant of lines 213-228 with success = True inside the try, after notify.
P_Attempt_SuccessInTry ==
    /\ ppc = "call"
    /\ \E r \in TryGenerate :
         IF r.ok
         THEN /\ \E shown \in BOOLEAN :
                   /\ log' = log \o <<Call(r), Notify("success", shown)>>
                   /\ success' = shown
              /\ ppc' = "after"
         ELSE IF IsRateLimited(r.err)
         THEN /\ log' = log \o <<Call(r), Event("wait", <<>>, BackoffDelay(attempt))>>
              /\ ppc' = "backoff"
              /\ UNCHANGED success
         ELSE /\ log' = Append(log, Call(r))
              /\ ppc' = "after"
              /\ UNCHANGED success
    /\ UNCHANGED <<envvars, sharedvars, mainvars, wvars>>
    /\ UNCHANGED <<credential, text, attempt, got, nget>>

\* lines 210-245: one attempt: the call, then the result (notification,
\* success = True, break), the rate limit (the backoff wait begins), or any
\* other error (break)
P_Attempt ==
    /\ ppc = "call"
    /\ \E r \in TryGenerate :
         IF r.ok
         THEN /\ \E shown \in BOOLEAN :
                   log' = log \o <<Call(r), Notify("success", shown)>>
              /\ success' = TRUE
              /\ ppc' = "after"
         ELSE IF IsRateLimited(r.err)
         THEN /\ log' = log \o <<Call(r), Event("wait", <<>>, BackoffDelay(attempt))>>
              /\ ppc' = "backoff"
              /\ UNCHANGED success
         ELSE /\ log' = Append(log, Call(r))
              /\ ppc' = "after"
              /\ UNCHANGED success
    /\ UNCHANGED <<envvars, sharedvars, mainvars, wvars>>
    /\ UNCHANGED <<credential, text, attempt, got, nget>>

\* A variant of lines 237-240 that leaves the outer loop body on shutdown,
\* past the task_done of line 263.
P_Backoff_SkipDone ==
    /\ ppc = "backoff"
    /\ IF shutdown_event
       THEN /\ ppc' = "check"
            /\ UNCHANGED attempt
       ELSE IF attempt < MAX_RETRIES
       THEN /\ attempt' = attempt + 1
            /\ ppc' = "call"
       ELSE /\ ppc' = "after"
            /\ UNCHANGED attempt
    /\ UNCHANGED <<envvars, sharedvars, mainvars, wvars>>
    /\ UNCHANGED <<credential, text, success, log, got, nget>>

\* A variant of lines 207 and 237-240 whose range has one attempt more.
P_Backoff_OneMore ==
    /\ ppc = "backoff"
    /\ IF shutdown_event
       THEN /\ ppc' = "after"
            /\ UNCHANGED attempt
       ELSE IF attempt <= MAX_RETRIES
       THEN /\ attempt' = attempt + 1
            /\ ppc' = "call"
       ELSE /\ ppc' = "after"
            /\ UNCHANGED attempt
    /\ UNCHANGED <<envvars, sharedvars, mainvars, wvars>>
    /\ UNCHANGED <<credential, text, success, log, got, nget>>

\* A variant of lines 237-240 without the break of lines 238-239.
P_Backoff_NoBreak ==
    /\ ppc = "backoff"
    /\ IF attempt < MAX_RETRIES
       THEN /\ attempt' = attempt + 1
            /\ ppc' = "call"
       ELSE /\ ppc' = "after"
            /\ UNCHANGED attempt
    /\ UNCHANGED <<envvars, sharedvars, mainvars, wvars>>
    /\ UNCHANGED <<credential, text, success, log, got, nget>>

\* lines 237-240: shutdown_event.wait(timeout=delay) returns, then break on
\* shutdown, else continue: the next attempt, or the end of range(1, 4)
P_Backoff ==
    /\ ppc = "backoff"
    /\ IF shutdown_event
       THEN /\ ppc' = "after"
            /\ UNCHANGED attempt
       ELSE IF attempt < MAX_RETRIES
       THEN /\ attempt' = attempt + 1
            /\ ppc' = "call"
       ELSE /\ ppc' = "after"
            /\ UNCHANGED attempt
    /\ UNCHANGED <<envvars, sharedvars, mainvars, wvars>>
    /\ UNCHANGED <<credential, text, success, log, got, nget>>

\* A variant of line 249 that forgets the success flag.
FailureDue_NoSuccessTest(succ, shut) == ~shut

\* line 249: if not success and not shutdown_event.is_set()
FailureDue(succ, shut) == ~succ /\ ~shut

\* lines 249-259: the failure notification
P_After ==
    /\ ppc = "after"
    /\ IF FailureDue(success, shutdown_event)
       THEN \E shown \in BOOLEAN : log' = Append(log, Notify("failure", shown))
       ELSE UNCHANGED log
    /\ ppc' = "done"
    /\ UNCHANGED <<envvars, sharedvars, mainvars, wvars>>
    /\ UNCHANGED <<credential, text, attempt, success, got, nget>>

\* line 263: ai_queue.task_done().  The history of the item ends here, and
\* the locals text, attempt and success are dead from here on: line 190,
\* line 204 and line 207 assign them before they are read again, so they
\* are put back to their initial values.
P_Done ==
    /\ ppc = "done"
    /\ unfinished_tasks' = unfinished_tasks - 1
    /\ log' = <<>>
    /\ got' = NoItem
    /\ text' = ""
    /\ attempt' = 0
    /\ success' = FALSE
    /\ ppc' = "check"
    /\ UNCHANGED <<envvars, shutdown_event, privacy_event, ai_queue, mainvars, wvars>>
    /\ UNCHANGED <<credential, nget>>

Processor ==
    P_Start \/ P_Check \/ P_Get \/ P_Attempt \/ P_Backoff \/ P_After \/ P_Done

\* ------------------------------------------------------ tray menu and main
\* lines 273-287: on_toggle_privacy
on_toggle_privacy ==
    /\ tray = "running"
    /\ privacy_event' = ~privacy_event
    /\ UNCHANGED <<envvars, shutdown_event, ai_queue, unfinished_tasks, mainvars,
                   wvars, pvars>>

\* lines 290-293: on_exit
on_exit ==
    /\ tray = "running"
    /\ shutdown_event' = TRUE
    /\ tray' = "stopped"
    /\ UNCHANGED <<envvars, privacy_event, ai_queue, unfinished_tasks, mpc, wvars, pvars>>

\* lines 304-335: both threads are started, then the tray loop runs
Main_Start ==
    /\ mpc = "start"
    /\ wpc' = "check"
    /\ ppc' = "start"
    /\ tray' = "running"
    /\ mpc' = "run"
    /\ UNCHANGED <<envvars, sharedvars, wlocals, plocals>>

\* A variant of line 339 that calls clear() instead of set().
Main_Exit_Clear ==
    /\ mpc = "run"
    /\ tray = "stopped"
    /\ shutdown_event' = FALSE
    /\ mpc' = "done"
    /\ UNCHANGED <<envvars, privacy_event, ai_queue, unfinished_tasks, tray, wvars, pvars>>

\* lines 339-345: after _tray_icon.run() returned: shutdown_event.set(), and
\* the two joins, which return when the thread ended or on their timeout
Main_Exit ==
    /\ mpc = "run"
    /\ tray = "stopped"
    /\ shutdown_event' = TRUE
    /\ mpc' = "done"
    /\ UNCHANGED <<envvars, privacy_event, ai_queue, unfinished_tasks, tray, wvars, pvars>>

Next ==
    \/ Copy
    \/ W_Check \/ W_Read \/ W_Decide \/ W_Put
    \/ P_Start \/ P_Check \/ P_Get \/ P_Attempt \/ P_Backoff \/ P_After \/ P_Done
    \/ on_toggle_privacy \/ on_exit
    \/ Main_Start \/ Main_Exit

Spec == Init /\ [][Next]_vars

\* Both threads are scheduled for as long as they can take a step, and a
\* started remote call returns.
FairSpec == Spec /\ WF_vars(Watcher) /\ WF_vars(Processor)

TypeOK ==
    /\ clipboard \in Texts /\ current_text \in Texts /\ last_text \in Texts
    /\ shutdown_event \in BOOLEAN /\ privacy_event \in BOOLEAN
    /\ attempt \in 0..MAX_RETRIES
    /\ unfinished_tasks \in 0..MaxCopies

\* ------------------------------------------------------------- properties
IsCall(e) == e.ev = "call"
IsWait(e) == e.ev = "wait"
IsNotify(e) == e.ev = "notify"
Calls == SelectSeq(log, IsCall)
Waits == SelectSeq(log, IsWait)
Notifs == SelectSeq(log, IsNotify)
Kinds(l) == [i \in 1..Len(l) |-> l[i].ev]
QueuedTexts == [i \in 1..Len(ai_queue) |-> ai_queue[i].text]
DecideStep == wpc = "decide" /\ wpc' # "decide"
PutStep == wpc = "put" /\ wpc' # "put"
CallStep == ppc = "call" /\ ppc' # "call"

\* C1 (as stated): a poll enqueues the text it read if and only if the text
\* is non-empty, differs from the value the immediately preceding poll
\* observed, and privacy_event was clear when the poll looked at it.
C1_PrecedingObserved ==
    [][DecideStep =>
         ((wpc' = "put") <=>
             (current_text # "" /\ current_text # prev_text /\ ~privacy_event))]_vars

\* C1 (amended): a poll enqueues the text it read if and only if the text is
\* non-empty, differs from the most recent NON-EMPTY value an earlier poll
\* observed, and privacy_event was clear when the poll looked at it; the put
\* appends exactly that text, and nothing else ever enqueues.
C1_EnqueueIffNew ==
    [][/\ DecideStep =>
            ((wpc' = "put") <=>
                (current_text # "" /\ current_text # prev_nonempty /\ ~privacy_event))
       /\ PutStep => (/\ Len(ai_queue') = Len(ai_queue) + 1
                       /\ SubSeq(ai_queue', 1, Len(ai_queue)) = ai_queue
                       /\ ai_queue'[Len(ai_queue')].text = current_text)
       /\ (nput' # nput \/ Len(ai_queue') > Len(ai_queue)) => PutStep]_vars

\* C1 witness: the clipboard went "", "a", "b" and exactly "a" then "b" were
\* enqueued.
C1_Witness ==
    /\ copies = 2
    /\ clipboard = "b"
    /\ nput = 2
    /\ QueuedTexts = <<"a", "b">>
    /\ last_text = "b"
    /\ wpc = "check"

\* C2 (as stated): a text placed on the clipboard while privacy_event was set
\* is never enqueued while the clipboard keeps that value.
C2_CopiedUnderPrivacy == [][PutStep => ~read_priv]_vars

\* C2 (amended): a text that a poll OBSERVED while privacy_event was set is
\* never enqueued for as long as the clipboard keeps that value, whatever
\* happens to privacy_event afterwards.
C2_ObservedUnderPrivacy ==
    [][priv_seen /\ nput' > nput
          => ai_queue'[Len(ai_queue')].text # clipboard]_vars

\* C2 witness: the text on the clipboard was suppressed, privacy has been
\* switched off since, and a later poll has read the same text again.
C2_Witness ==
    /\ priv_seen
    /\ ~privacy_event
    /\ wpc = "decide"
    /\ current_text = clipboard
    /\ clipboard # ""

\* C3 (as stated): while privacy_event is set the processor starts no remote
\* call and nothing is put into ai_queue.
C3_NothingLeavesWhilePrivate == [][privacy_event => ~CallStep /\ ~PutStep]_vars

\* C3 (amended): what the watcher observed with privacy_event set (line 114)
\* is never put into ai_queue, and the snippet the processor sends is an item
\* it got from the queue, hence one observed with privacy_event clear.
C3_SuppressedNeverQueued ==
    /\ \A i \in 1..Len(ai_queue) : ~ai_queue[i].priv
    /\ ppc \in {"call", "backoff"} =>
          /\ got.seq \in 1..nput
          /\ text = got.text
          /\ ~got.priv

\* C3 witness: privacy is set, a text has been suppressed, and the processor
\* is about to send a snippet enqueued earlier.
C3_Witness ==
    /\ privacy_event
    /\ priv_seen
    /\ ppc = "call"
    /\ text # ""

AllCallsRateLimited == \A i \in 1..Len(Calls) : IsRateLimited(Calls[i].res)
AllCallsZeroQuota == \A i \in 1..Len(Calls) : Calls[i].res = ErrZeroQuota

\* C4: when every call for a snippet was rate-limited and shutdown was never
\* set, the retry loop ends after exactly MAX_RETRIES calls, each followed by
\* a wait, the waits being 5, 10 and 20 in that order.
C4_RetryBackoff ==
    (ppc = "after" /\ ~shutdown_event /\ AllCallsRateLimited) =>
        /\ Len(Calls) = MAX_RETRIES
        /\ Kinds(log) = <<"call", "wait", "call", "wait", "call", "wait">>
        /\ [i \in 1..Len(Waits) |-> Waits[i].delay] = <<5, 10, 20>>
        /\ Waits[1].delay = BASE_DELAY
        /\ Waits[2].delay = 2 * BASE_DELAY
        /\ Waits[3].delay = 4 * BASE_DELAY

\* C4 witness: the retry loop has ended on three rate-limited calls, without
\* shutdown.
C4_Witness ==
    /\ ppc = "after"
    /\ ~shutdown_event
    /\ Len(Calls) = 3
    /\ AllCallsRateLimited
    /\ ~success

FirstCallIs(e) == Len(log) >= 1 /\ log[1].ev = "call" /\ log[1].res = e

ShutdownTail == {"backoff", "after", "done", "check", "stopped"}

\* C7: with shutdown_event set during a backoff wait, the processor's next
\* step leaves the wait by the break of line 239; from there on it starts no
\* remote call, gets nothing from the queue, and its loop test ends the loop.
C7_ShutdownInBackoff ==
    [][(shutdown_event /\ ppc \in ShutdownTail) =>
          /\ ppc' \in ShutdownTail
          /\ (ppc = "backoff" /\ ppc' # ppc) => (ppc' = "after" /\ log' = log)
          /\ (ppc = "check" /\ ppc' # ppc) => ppc' = "stopped"
          /\ ppc = "stopped" => ppc' = "stopped"
          /\ nget' = nget
          /\ ai_queue' = ai_queue \/ Len(ai_queue') > Len(ai_queue)
          /\ Len(SelectSeq(log', IsCall)) <= Len(Calls)]_vars

\* C7 witness: the processor has stopped after a retry loop that a shutdown
\* cut short in the backoff wait of an attempt before the last.
C7_Witness ==
    /\ shutdown_event
    /\ ppc = "after"
    /\ ~success
    /\ attempt < MAX_RETRIES
    /\ log # <<>>
    /\ log[Len(log)].ev = "wait"

\* C8: under fair scheduling of both threads, once shutdown_event is set the
\* watcher reaches "stopped" and the processor reaches "stopped" (or had
\* returned at startup for want of a credential).
C8_BothStop ==
    shutdown_event ~> (wpc = "stopped" /\ ppc \in {"stopped", "disabled"})

\* C8 witness: both loops have stopped after shutdown, the processor having
\* worked on an item.
C8_Witness ==
    /\ shutdown_event
    /\ wpc = "stopped"
    /\ ppc = "stopped"
    /\ nget >= 1

\* C9: for the snippet in hand there is at most one notification: the
\* success notification exactly when a call returned a result, the failure
\* notification exactly when the retry loop ended without success and line
\* 249 found shutdown_event clear; none while attempts are still being made.
InHand == ppc \in {"call", "backoff", "after", "done"}

C9_State ==
    InHand =>
        /\ Len(Notifs) <= 1
        /\ success <=> (\E i \in 1..Len(Calls) : Calls[i].res = <<"ok">>)
        /\ success <=> (\E i \in 1..Len(Notifs) : Notifs[i].res[1] = "success")
        /\ ppc \in {"call", "backoff", "after"} =>
              \A i \in 1..Len(Notifs) : Notifs[i].res[1] # "failure"
        /\ ppc \in {"call", "backoff"} => Notifs = <<>>
        /\ (ppc = "done" /\ ~success /\ ~shutdown_event) =>
              (Len(Notifs) = 1 /\ Notifs[1].res[1] = "failure")
        /\ \A i \in 1..Len(log) : log[i].ev = "notify" => i = Len(log)

C9_Step ==
    (ppc = "after" /\ ppc' = "done") =>
        ((Len(log') > Len(log)) <=> (~success /\ ~shutdown_event))

C9_OneNotification == [](C9_State) /\ [][C9_Step]_vars

\* C9 witness: a snippet ended with the failure notification after retries.
C9_Witness ==
    /\ ppc = "done"
    /\ Len(Calls) = 3
    /\ Len(Notifs) = 1
    /\ Notifs[1].res[1] = "failure"

\* C10: the k-th item the processor gets is the k-th item the watcher put,
\* with the text that was put, and the queue holds the items put and not yet
\* got, in the order of the puts: the queue is FIFO, loses and duplicates
\* nothing, and an item leaves it only through get.
C10_Fifo ==
    /\ nput = nget + Len(ai_queue)
    /\ \A i \in 1..Len(ai_queue) : ai_queue[i].seq = nget + i
    /\ InHand => (got.seq = nget /\ text = got.text /\ text # "")
    /\ unfinished_tasks = Len(ai_queue) + (IF InHand THEN 1 ELSE 0)

\* C10 witness: the first item put is in hand while a later, different item
\* is still queued.
C10_Witness ==
    /\ nget = 1
    /\ InHand
    /\ ai_queue # <<>>
    /\ ai_queue[1].text # text

\* C11: without the credential the processor returns at startup: it never
\* gets an item and never calls the API, while the watcher keeps polling
\* (it stops only on shutdown_event); the queue only grows, and holds every
\* item the watcher has put.
C11_State ==
    ~credential =>
        /\ ppc \in {"idle", "start", "disabled"}
        /\ nget = 0
        /\ log = <<>>
        /\ Len(ai_queue) = nput
        /\ wpc = "stopped" => shutdown_event

C11_Step ==
    ~credential =>
        /\ Len(ai_queue') >= Len(ai_queue)
        /\ SubSeq(ai_queue', 1, Len(ai_queue)) = ai_queue
        /\ ppc = "disabled" => ppc' = "disabled"

C11_DisabledProcessor == [](C11_State) /\ [][C11_Step]_vars

\* C11 witness: the processor has returned for want of a credential and two
\* items the watcher put afterwards are still queued.
C11_Witness ==
    /\ ~credential
    /\ ppc = "disabled"
    /\ Len(ai_queue) = 2
    /\ wpc = "check"

\* C12: once shutdown_event is set no step of any actor clears it.
C12_ShutdownMonotonic == [][shutdown_event => shutdown_event']_vars

\* C12 witness: on_exit has set shutdown_event, main has gone through its
\* own set and the joins, and privacy_event has been set and cleared again.
C12_Witness ==
    /\ shutdown_event
    /\ mpc = "done"
    /\ priv_seen
    /\ ~privacy_event

IsOtherError(res) ==
    /\ res # <<"ok">>
    /\ \A m \in {"429", "RESOURCE_EXHAUSTED", "404", "NOT_FOUND"} : ~Contains(res, m)

\* C14: after an error that is neither not-found nor a rate limit, on any
\* attempt, the retry loop is over: no later call and no wait for the item;
\* the only event that may follow is the one notification.
C14_OtherErrorNoRetry ==
    \A i \in 1..Len(log) :
        (log[i].ev = "call" /\ IsOtherError(log[i].res)) =>
            /\ ppc \in {"after", "done"}
            /\ ~success
            /\ \A j \in (i + 1)..Len(log) : log[j].ev = "notify"
            /\ \A j \in 1..(i - 1) : log[j].ev = "wait" => log[j + 1].ev = "call"

\* C14 witness: a second attempt, made after a rate limit, ended in such an
\* error, and the item is through.
C14_Witness ==
    /\ ppc = "done"
    /\ Len(Calls) = 2
    /\ IsOtherError(Calls[2].res)

\* C15: between polls last_text is the most recent non-empty value a poll
\* has read ("" when there was none), whether that value was enqueued or
\* suppressed by privacy; an empty or failed read leaves it as it was.
C15_LastText ==
    wpc \in {"check", "stopped"} =>
        last_text = (IF current_text # "" THEN current_text ELSE prev_nonempty)

\* C15 witness: last_text holds a value that privacy suppressed (nothing was
\* ever enqueued), and the poll that followed read nothing.
C15_Witness ==
    /\ wpc = "check"
    /\ nput = 0
    /\ last_text # ""
    /\ current_text = ""
    /\ obs_priv

ReadStep == wpc = "read" /\ wpc' # "read"

\* C16: a read never ends the thread: a failed read leaves "" in
\* current_text; the poll of an empty text enqueues nothing, leaves
\* last_text, shutdown_event and privacy_event alone, and goes on to the
\* next loop test.
C16_FailedReadIsEmpty ==
    [][/\ ReadStep =>
            /\ wpc' = "decide"
            /\ current_text' \in {clipboard, ""}
            /\ UNCHANGED <<last_text, ai_queue, nput, shutdown_event, privacy_event>>
       /\ (DecideStep /\ current_text = "") =>
            /\ wpc' = "check"
            /\ UNCHANGED <<last_text, ai_queue, nput, shutdown_event, privacy_event>>]_vars

\* C16 witness: the clipboard has held the same non-empty text since its
\* only change, a poll has observed it, and the latest poll read "": that
\* read failed, and the watcher is at its next loop test.
C16_Witness ==
    /\ copies = 1
    /\ clipboard # ""
    /\ last_text = clipboard
    /\ current_text = ""
    /\ wpc = "check"
    /\ ~shutdown_event

SinkFailed == \E i \in 1..Len(log) : log[i].ev = "notify" /\ log[i].res[2] = "SinkError"

\* C17: after a notification that the sink refused, the processor is still
\* in its loop: a refused success notification leaves success = True and the
\* step past line 249 adds no failure notification; then task_done marks the
\* item done and the loop goes on to its next test.
C17_SinkErrorAbsorbed ==
    [][SinkFailed =>
          /\ ppc \in {"after", "done"}
          /\ ppc = "after" => (success /\ log[Len(log)].res[1] = "success")
          /\ (ppc = "after" /\ ppc' # ppc) => (ppc' = "done" /\ log' = log)
          /\ (ppc = "done" /\ ppc' # ppc) =>
                (ppc' = "check" /\ unfinished_tasks' = unfinished_tasks - 1)
          /\ Len(Notifs) = 1]_vars

\* C17 witness: the success notification was refused and the item has
\* passed line 249 with no failure notification.
C17_Witness ==
    /\ ppc = "done"
    /\ success
    /\ SinkFailed
    /\ Len(log) = 2

TaskDone == nput - unfinished_tasks

\* C18: the number of task_done calls (puts minus unfinished_tasks) equals
\* the number of items got, less the one in hand: never more than the gets,
\* and equal to them between items.  task_done is called once, as the last
\* step for the item, whichever way the retry loop ended; an Empty get
\* marks nothing.
C18_State ==
    /\ TaskDone = nget - (IF InHand THEN 1 ELSE 0)
    /\ TaskDone <= nget
    /\ ~InHand => TaskDone = nget

C18_Step ==
    /\ unfinished_tasks' < unfinished_tasks =>
          (ppc = "done" /\ ppc' = "check" /\ unfinished_tasks' = unfinished_tasks - 1)
    /\ (ppc = "done" /\ ppc' # ppc) => unfinished_tasks' = unfinished_tasks - 1
    /\ (ppc = "get" /\ ppc' = "check") =>
          (unfinished_tasks' = unfinished_tasks /\ nget' = nget)
    /\ nget' # nget => (~InHand /\ nget' = nget + 1)

C18_TaskDoneOnce == [](C18_State) /\ [][C18_Step]_vars

\* C18 witness: shutdown cut a backoff wait short and the item was marked
\* done all the same: the processor is back at its loop test, one item got,
\* none unfinished.
C18_Witness ==
    /\ shutdown_event
    /\ ppc = "check"
    /\ nget = 1
    /\ nput = 1
    /\ unfinished_tasks = 0

HasRateMarker(res) == Contains(res, "429") \/ Contains(res, "RESOURCE_EXHAUSTED")

\* C19: an item gets at most MAX_RETRIES calls, and at least one by the time
\* its retry loop has ended; every call but the first comes right after a
\* backoff wait that followed a rate-limited call, and the wait was left
\* with shutdown_event clear.
C19_State ==
    /\ Len(Calls) <= MAX_RETRIES
    /\ Len(Calls) <= 3
    /\ ppc \in {"after", "done"} => Len(Calls) >= 1
    /\ \A i \in 2..Len(log) :
          log[i].ev = "call" =>
              /\ i >= 3
              /\ log[i - 1].ev = "wait"
              /\ log[i - 2].ev = "call"
              /\ HasRateMarker(log[i - 2].res)

C19_Step == (ppc = "backoff" /\ ppc' = "call") => ~shutdown_event

C19_CallsPerItem == [](C19_State) /\ [][C19_Step]_vars

\* C19 witness: the third call for an item succeeded after two rate limits.
C19_Witness ==
    /\ ppc = "after"
    /\ success
    /\ Len(Calls) = 3

\* C13: a put never enqueues the present clipboard content when a put has
\* enqueued it already since the clipboard last changed; while it is
\* enqueued and unchanged, last_text holds it, so every further poll of it
\* fails the test of line 111.
C13_State == clip_queued => (last_text = clipboard /\ wpc # "put")

C13_Step == (PutStep /\ current_text = clipboard) => ~clip_queued

C13_PollIdempotent == [](C13_State) /\ [][C13_Step]_vars

\* C13 witness: the content was enqueued, has not changed, and a later poll
\* read it again with privacy off.
C13_Witness ==
    /\ clip_queued
    /\ wpc = "decide"
    /\ current_text = clipboard
    /\ ~privacy_event

WatcherLeft == IF wpc \in {"read", "decide", "put"} THEN 1 ELSE 0
GetsLeft == IF ppc = "get" THEN 1 ELSE 0
CallsLeft == IF ppc \in {"get", "call"} THEN 1 ELSE 0

\* C20: once shutdown_event is set, the watcher has at most one put left
\* (the one of the poll it is in), the processor at most one get and one
\* call left, and each put, get or call uses that one up: the number left
\* never rises.  A stopped thread stays stopped, so what is in ai_queue when
\* the processor has stopped stays there.
C20_Step ==
    /\ shutdown_event =>
          /\ (nput' - nput) + WatcherLeft' <= WatcherLeft
          /\ (nget' - nget) + GetsLeft' <= GetsLeft
          /\ (IF CallStep THEN 1 ELSE 0) + CallsLeft' <= CallsLeft
    /\ wpc = "stopped" => (wpc' = "stopped" /\ nput' = nput)
    /\ ppc = "stopped" =>
          /\ ppc' = "stopped"
          /\ nget' = nget
          /\ log' = log
          /\ unfinished_tasks' >= unfinished_tasks
          /\ Len(ai_queue') >= Len(ai_queue)
          /\ \A i \in 1..Len(ai_queue) : ai_queue'[i] = ai_queue[i]

C20_State ==
    /\ shutdown_event => (wpc # "idle" /\ ppc # "idle")
    /\ (wpc = "stopped" \/ ppc = "stopped") => shutdown_event

C20_AfterShutdown == [](C20_State) /\ [][C20_Step]_vars

\* C20 witness: both threads have stopped after shutdown, one item was
\* processed and another is left in the queue for good.
C20_Witness ==
    /\ shutdown_event
    /\ wpc = "stopped"
    /\ ppc = "stopped"
    /\ nget = 1
    /\ Len(ai_queue) = 1
    /\ unfinished_tasks = 1

====
